---- MODULE Spec2Model ----
(***************************************************************************)
(* Model of api_server.py: the product query service (GET /api/products,   *)
(* /api/products/{site}, /api/products/{site}/{location}), the single-file *)
(* parse and upload endpoints and the scrape orchestration endpoint, over  *)
(* the two directories the server shares with the external node processes. *)
(*                                                                         *)
(* Strings are sequences of one-character strings, so that lower-casing,   *)
(* substring tests, suffixes and glob matching are computed and not        *)
(* assumed.  A JSON file is either not loadable (json.load raises) or a    *)
(* value: a list of items or one item; an item is an object or a scalar.   *)
(***************************************************************************)
EXTENDS Integers, Sequences, FiniteSets, TLC

VARIABLES
    outputs,   \* OUTPUTS_DIR ("outputs/"): the directory listing, a sequence of files
    htmlDir,   \* Path("output"): the set of file names the scraper left there
    clock,     \* the file system's modification-time clock
    last,      \* the last completed query / parse / upload request and its response
    pc,        \* per scrape request: where the coroutine is suspended
    resp,      \* per scrape request: the response once it is done
    wrote      \* per scrape request: names of the batch artifacts its parser run wrote

vars == <<outputs, htmlDir, clock, last, pc, resp, wrote>>

(***************************************************************************)
(* Bounds of the model.                                                    *)
(***************************************************************************)
MaxFiles == 2
MaxClock == 1

(***************************************************************************)
(* Strings.                                                                *)
(***************************************************************************)
S_dmart == <<"d","m","a","r","t">>
S_jiomart == <<"j","i","o","m","a","r","t">>
S_naturesbasket == <<"n","a","t","u","r","e","s","b","a","s","k","e","t">>
S_zepto == <<"z","e","p","t","o">>
S_swiggy == <<"s","w","i","g","g","y">>
S_DMart == <<"D","M","a","r","t">>
S_amazon == <<"a","m","a","z","o","n">>
S_unknown == <<"u","n","k","n","o","w","n">>
S_Unknown == <<"U","n","k","n","o","w","n">>
S_AndheriWest == <<"M","u","m","b","a","i"," ","-"," ","A","n","d","h","e","r","i"," ","W","e","s","t">>
S_Pune == <<"P","u","n","e">>
S_puneEast == <<"p","u","n","e"," ","e","a","s","t">>
S_pune == <<"p","u","n","e">>
S_andheri == <<"a","n","d","h","e","r","i">>
S_PUNE == <<"P","U","N","E">>
S_star == <<"*">>
S_parsedJson == <<"-","p","a","r","s","e","d",".","j","s","o","n">>
S_dotHtml == <<".","h","t","m","l">>
S_dotJson == <<".","j","s","o","n">>
S_parsedResults == <<"p","a","r","s","e","d","-","r","e","s","u","l","t","s","-">>

\* str.lower() on one character (ASCII letters).
LowerChar(c) ==
    CASE c = "A" -> "a" [] c = "B" -> "b" [] c = "C" -> "c" [] c = "D" -> "d"
      [] c = "E" -> "e" [] c = "F" -> "f" [] c = "G" -> "g" [] c = "H" -> "h"
      [] c = "I" -> "i" [] c = "J" -> "j" [] c = "K" -> "k" [] c = "L" -> "l"
      [] c = "M" -> "m" [] c = "N" -> "n" [] c = "O" -> "o" [] c = "P" -> "p"
      [] c = "Q" -> "q" [] c = "R" -> "r" [] c = "S" -> "s" [] c = "T" -> "t"
      [] c = "U" -> "u" [] c = "V" -> "v" [] c = "W" -> "w" [] c = "X" -> "x"
      [] c = "Y" -> "y" [] c = "Z" -> "z" [] OTHER -> c

\* str.lower()
Lower(s) == [i \in 1..Len(s) |-> LowerChar(s[i])]

\* Python's `a in b` on strings
IsSubstr(a, b) ==
    \E i \in 0..(Len(b) - Len(a)) : SubSeq(b, i + 1, i + Len(a)) = a

\* str.endswith
EndsWith(s, suf) ==
    Len(s) >= Len(suf) /\ SubSeq(s, Len(s) - Len(suf) + 1, Len(s)) = suf

\* Path.glob on one directory: fnmatch of a name against a pattern whose only
\* wildcard is "*".
RECURSIVE GlobMatch(_, _)
GlobMatch(p, n) ==
    IF p = <<>> THEN n = <<>>
    ELSE IF Head(p) = "*"
         THEN GlobMatch(Tail(p), n) \/ (n /= <<>> /\ GlobMatch(p, Tail(n)))
         ELSE n /= <<>> /\ Head(n) = Head(p) /\ GlobMatch(Tail(p), Tail(n))

\* index of the last "." of a name, 0 when there is none
LastDot(n) ==
    LET dots == {i \in 1..Len(n) : n[i] = "."}
    IN IF dots = {} THEN 0 ELSE CHOOSE i \in dots : \A j \in dots : j <= i

\* Path.suffix: from the last dot on; a leading dot starts no suffix
Suffix(n) == IF LastDot(n) <= 1 THEN <<>> ELSE SubSeq(n, LastDot(n), Len(n))

\* Path.stem
Stem(n) == IF LastDot(n) <= 1 THEN n ELSE SubSeq(n, 1, LastDot(n) - 1)

(***************************************************************************)
(* Program constants.                                                      *)
(***************************************************************************)
SUPPORTED_SITES == <<S_dmart, S_jiomart, S_naturesbasket, S_zepto, S_swiggy>>

InList(x, l) == \E i \in 1..Len(l) : l[i] = x

(***************************************************************************)
(* JSON values as the handlers see them.                                   *)
(***************************************************************************)
\* An object with the keys in `has`; `pnull` says that "products" holds a
\* value that is not a list (null).
Obj(has, site, location, products, pnull, total) ==
    [t |-> "obj", has |-> has, site |-> site, location |-> location,
     products |-> products, pnull |-> pnull, totalProducts |-> total]

AllKeys == {"site", "location", "products", "totalProducts"}

\* A JSON scalar (a number): it has no .get
Num == [t |-> "num", has |-> {}, site |-> <<>>, location |-> <<>>,
        products |-> <<>>, pnull |-> FALSE, totalProducts |-> 0]

\* File contents: bytes json.load rejects, one item, or a list of items.
Corrupt == [ok |-> FALSE, isList |-> FALSE, items |-> <<>>]
One(item) == [ok |-> TRUE, isList |-> FALSE, items |-> <<item>>]
List(items) == [ok |-> TRUE, isList |-> TRUE, items |-> items]

\* dict.get(key, default) for the three keys the handlers read
GetSite(r, default) == IF "site" \in r.has THEN r.site ELSE default
GetLocation(r, default) == IF "location" \in r.has THEN r.location ELSE default
GetProducts(r) == IF "products" \in r.has THEN r.products ELSE <<>>
GetTotalProducts(r) == IF "totalProducts" \in r.has THEN r.totalProducts ELSE 0

\* list.extend(products) raises TypeError when products is not iterable
BadProducts(r) == "products" \in r.has /\ r.pnull

File(name, content, mtime) == [name |-> name, content |-> content, mtime |-> mtime]

\* Path.glob over OUTPUTS_DIR, in directory order
Glob(dir, pattern) == SelectSeq(dir, LAMBDA f : GlobMatch(pattern, f.name))

Names(files) == [i \in 1..Len(files) |-> files[i].name]

(***************************************************************************)
(* Responses.  `reads` lists the files the handler opened, in order, and   *)
(* `globs` counts its directory enumerations; `calls` lists the external   *)
(* processes it awaited, each with the exit code it returned.              *)
(***************************************************************************)
Response(status, body, reads, globs) ==
    [status |-> status, body |-> body, reads |-> reads, globs |-> globs,
     calls |-> <<>>]

\* raise HTTPException(status_code=400, ...) of the two site-scoped handlers
Unsupported(site) ==
    Response(400, [detail |-> "Unsupported site", site |-> site], <<>>, 0)

\* the handlers' `except Exception` arm
Error500(detail, reads, globs) ==
    Response(500, [detail |-> detail], reads, globs)

RECURSIVE Concat(_)
\* the concatenation of a sequence of sequences
Concat(ss) == IF ss = <<>> THEN <<>> ELSE Head(ss) \o Concat(Tail(ss))

\* all_products.extend(result.get('products', [])) over all results
AllProducts(results) ==
    Concat([i \in 1..Len(results) |-> GetProducts(results[i])])

\* The aggregation loops call .get on every result and extend a list with
\* its products: a scalar result or a non-list products value raises.
AggregationRaises(results) ==
    \E i \in 1..Len(results) : results[i].t = "num" \/ BadProducts(results[i])

(***************************************************************************)
(* GET /api/products                                                       *)
(***************************************************************************)
\* lines 101-112: every loadable file contributes its items (a list is
\* extended, anything else appended); a file that raises is skipped.
LoadAll(json_files) ==
    Concat([i \in 1..Len(json_files) |->
              IF json_files[i].content.ok THEN json_files[i].content.items
              ELSE <<>>])

\* GroupBySite with the entry's location overwritten by every result
RECURSIVE GroupBySiteLastLocation(_, _)
GroupBySiteLastLocation(results, sites) ==
    IF results = <<>> THEN sites
    ELSE LET result == Head(results)
             site == GetSite(result, S_unknown)
             products == GetProducts(result)
             entry == IF site \in DOMAIN sites THEN sites[site]
                      ELSE [location |-> <<>>, products |-> <<>>, total |-> 0]
             updated == [entry EXCEPT !.location = GetLocation(result, S_Unknown),
                                      !.products = @ \o products,
                                      !.total = @ + Len(products)]
         IN GroupBySiteLastLocation(Tail(results),
                        [k \in (DOMAIN sites) \cup {site} |->
                            IF k = site THEN updated ELSE sites[k]])

\* lines 116-131: the `sites` dictionary after the loop over `results`
RECURSIVE GroupBySite(_, _)
GroupBySite(results, sites) ==
    IF results = <<>> THEN sites
    ELSE LET result == Head(results)
             site == GetSite(result, S_unknown)
             location == GetLocation(result, S_Unknown)
             products == GetProducts(result)
             entry == IF site \in DOMAIN sites THEN sites[site]
                      ELSE [location |-> location, products |-> <<>>, total |-> 0]
             updated == [entry EXCEPT !.products = @ \o products,
                                      !.total = @ + Len(products)]
         IN GroupBySite(Tail(results),
                        [k \in (DOMAIN sites) \cup {site} |->
                            IF k = site THEN updated ELSE sites[k]])

get_all_products(dir) ==
    LET json_files == Glob(dir, S_star \o S_parsedJson)
        results == LoadAll(json_files)
        sites == GroupBySite(results, <<>>)
        all_products == AllProducts(results)
    IN IF json_files = <<>>
       THEN Response(200, [message |-> "No parsed data found",
                           products |-> <<>>, total |-> 0], <<>>, 1)
       ELSE IF AggregationRaises(results)
       THEN Error500("Error retrieving products", Names(json_files), 1)
       ELSE Response(200, [message |-> "Success", sites |-> sites,
                           all_products |-> all_products,
                           total_products |-> Len(all_products),
                           total_sites |-> Cardinality(DOMAIN sites)],
                     Names(json_files), 1)

(***************************************************************************)
(* GET /api/products/{site}                                                *)
(***************************************************************************)
\* ValidSite with the validation left out
ValidSiteAny(site) == TRUE

\* `site not in SUPPORTED_SITES` after site = site.lower()
ValidSite(site) == InList(site, SUPPORTED_SITES)

\* lines 163-164 and 239-240: both patterns, the second list appended to the first
SiteFiles(dir, site) ==
    Glob(dir, site \o S_star \o S_parsedJson)
        \o Glob(dir, S_star \o site \o S_star \o S_parsedJson)

\* r.get('site', '').lower() == site
SiteMatches(r, site) == Lower(GetSite(r, <<>>)) = site

\* lines 176-185: what one file adds to `results`.  The comprehension over a
\* list, or data.get on a scalar, raises before anything is added.
SiteResultsOfFile(f, site) ==
    IF ~f.content.ok THEN <<>>
    ELSE IF \E i \in 1..Len(f.content.items) : f.content.items[i].t = "num"
    THEN <<>>
    ELSE SelectSeq(f.content.items, LAMBDA r : SiteMatches(r, site))

\* lines 197-207: the `locations` dictionary
RECURSIVE GroupByLocation(_, _)
GroupByLocation(results, locations) ==
    IF results = <<>> THEN locations
    ELSE LET result == Head(results)
             location == GetLocation(result, S_Unknown)
             products == GetProducts(result)
             old == IF location \in DOMAIN locations THEN locations[location]
                    ELSE <<>>
         IN GroupByLocation(Tail(results),
                            [k \in (DOMAIN locations) \cup {location} |->
                                IF k = location THEN old \o products
                                ELSE locations[k]])

get_products_by_site(dir, rawsite) ==
    LET site == Lower(rawsite)
        json_files == SiteFiles(dir, site)
        results == Concat([i \in 1..Len(json_files) |->
                             SiteResultsOfFile(json_files[i], site)])
        locations == GroupByLocation(results, <<>>)
        all_products == AllProducts(results)
        nodata == [message |-> "No data found for site", site |-> site,
                   products |-> <<>>, total |-> 0]
    IN IF ~ValidSite(site) THEN Unsupported(site)
       ELSE IF json_files = <<>> THEN Response(200, nodata, <<>>, 2)
       ELSE IF results = <<>> THEN Response(200, nodata, Names(json_files), 2)
       ELSE IF AggregationRaises(results)
       THEN Error500("Error retrieving products", Names(json_files), 2)
       ELSE Response(200, [message |-> "Success", site |-> site,
                           locations |-> locations,
                           products |-> all_products,
                           total_products |-> Len(all_products),
                           total_locations |-> Cardinality(DOMAIN locations)],
                     Names(json_files), 2)

(***************************************************************************)
(* GET /api/products/{site}/{location}                                     *)
(***************************************************************************)
\* location in result.get('location', '').lower()
LocationMatches(r, location) == IsSubstr(location, Lower(GetLocation(r, <<>>)))

\* the items of a file the inner loop visits before .get raises on a scalar
RECURSIVE BeforeScalar(_)
BeforeScalar(items) ==
    IF items = <<>> \/ Head(items).t = "num" THEN <<>>
    ELSE <<Head(items)>> \o BeforeScalar(Tail(items))

\* lines 255-268: what one file adds to `matching_results`; results appended
\* before an item raises stay appended.
MatchingResultsOfFile(f, site, location) ==
    IF ~f.content.ok THEN <<>>
    ELSE SelectSeq(BeforeScalar(f.content.items),
                   LAMBDA r : SiteMatches(r, site) /\ LocationMatches(r, location))

get_products_by_site_and_location(dir, rawsite, rawlocation) ==
    LET site == Lower(rawsite)
        location == Lower(rawlocation)
        json_files == SiteFiles(dir, site)
        matching_results ==
            Concat([i \in 1..Len(json_files) |->
                      MatchingResultsOfFile(json_files[i], site, location)])
        all_products == AllProducts(matching_results)
        nodata(msg) == [message |-> msg, site |-> site, location |-> location,
                        products |-> <<>>, total |-> 0]
    IN IF ~ValidSite(site) THEN Unsupported(site)
       ELSE IF json_files = <<>>
       THEN Response(200, nodata("No data found for site"), <<>>, 2)
       ELSE IF matching_results = <<>>
       THEN Response(200, nodata("No data found for site, location"),
                     Names(json_files), 2)
       ELSE IF \E i \in 1..Len(matching_results) : BadProducts(matching_results[i])
       THEN Error500("Error retrieving products", Names(json_files), 2)
       ELSE Response(200, [message |-> "Success", site |-> site,
                           location |-> location, products |-> all_products,
                           total_products |-> Len(all_products)],
                     Names(json_files), 2)

(***************************************************************************)
(* The artifact stores and the request inputs the model explores.          *)
(***************************************************************************)
N_dmartMumbai == <<"d","m","a","r","t","-","m","u","m","b","a","i">> \o S_parsedJson
N_myDmart == <<"m","y","-","d","m","a","r","t">> \o S_parsedJson
N_store1 == <<"s","t","o","r","e","1">> \o S_parsedJson

ArtifactNames == {N_dmartMumbai, N_myDmart, N_store1}

PR_A == Obj(AllKeys, S_dmart, S_AndheriWest, <<1, 2>>, FALSE, 2)
PR_B == Obj(AllKeys, S_DMart, S_Pune, <<3>>, FALSE, 1)
PR_C == Obj(AllKeys, S_dmart, S_puneEast, <<7>>, FALSE, 1)
PR_Z == Obj(AllKeys, S_zepto, S_pune, <<4, 5, 6>>, FALSE, 3)
PR_N == Obj(AllKeys, S_dmart, S_Pune, <<>>, TRUE, 0)
PR_U == Obj({"products"}, <<>>, <<>>, <<8>>, FALSE, 0)

ContentPool ==
    {One(PR_A), One(PR_B), List(<<PR_Z, PR_C, PR_U>>), One(PR_N), One(Num),
     Corrupt, List(<<PR_B, Num>>)}

\* directory listings of at most n files with distinct names
Stores(n) ==
    UNION {{d \in [1..k -> {File(nm, c, 0) : nm \in ArtifactNames, c \in ContentPool}] :
              \A i, j \in 1..k : i /= j => d[i].name /= d[j].name} : k \in 0..n}

SiteInputs == {S_DMart, S_amazon}
LocationInputs == {S_andheri, S_PUNE}

Reqs == {1, 2}

NoRequest == [op |-> "none", site |-> <<>>, location |-> <<>>, path |-> <<>>,
              r |-> Response(0, [detail |-> "none"], <<>>, 0)]

Query(op, site, location, r) ==
    [op |-> op, site |-> site, location |-> location, path |-> <<>>, r |-> r]

(***************************************************************************)
(* The query service over a store: the three GET handlers.                 *)
(***************************************************************************)
Init ==
    /\ outputs \in Stores(MaxFiles)
    /\ htmlDir = {}
    /\ clock = 0
    /\ last = NoRequest
    /\ pc = [q \in Reqs |-> "idle"]
    /\ resp = [q \in Reqs |-> NoRequest.r]
    /\ wrote = [q \in Reqs |-> {}]

GetAllProducts ==
    /\ last' = Query("get_all", <<>>, <<>>, get_all_products(outputs))
    /\ UNCHANGED <<outputs, htmlDir, clock, pc, resp, wrote>>

GetProductsBySite(site) ==
    /\ last' = Query("by_site", site, <<>>, get_products_by_site(outputs, site))
    /\ UNCHANGED <<outputs, htmlDir, clock, pc, resp, wrote>>

GetProductsBySiteAndLocation(site, location) ==
    /\ last' = Query("by_site_location", site, location,
                     get_products_by_site_and_location(outputs, site, location))
    /\ UNCHANGED <<outputs, htmlDir, clock, pc, resp, wrote>>

Next ==
    \/ GetAllProducts
    \/ \E site \in SiteInputs : GetProductsBySite(site)
    \/ \E site \in SiteInputs, location \in LocationInputs :
          GetProductsBySiteAndLocation(site, location)

Spec == Init /\ [][Next]_vars

(***************************************************************************)
(* POST /api/parse and POST /api/upload: one HTML file through the         *)
(* external parser.  The parser is a black box: it returns an exit code    *)
(* and may or may not have left <stem>-parsed.json in OUTPUTS_DIR.         *)
(***************************************************************************)
N_page1Html == <<"p","a","g","e","1">> \o S_dotHtml
N_notesTxt == <<"n","o","t","e","s",".","t","x","t">>
N_missingHtml == <<"m","i","s","s","i","n","g">> \o S_dotHtml
N_missingTxt == <<"m","i","s","s","i","n","g",".","t","x","t">>
N_upHtml == <<"u","p">> \o S_dotHtml

PathInputs == {N_page1Html, N_notesTxt, N_missingHtml, N_missingTxt}
UploadInputs == {N_upHtml, N_notesTxt}
ExitCodes == {0, 1}

\* what a run of unified-html-parser.js on one file may leave behind
ParsedPool == {One(PR_A), Corrupt, List(<<PR_Z>>)}

HasFile(dir, name) == \E i \in DOMAIN dir : dir[i].name = name
FileNamed(dir, name) == dir[CHOOSE i \in DOMAIN dir : dir[i].name = name]

\* a process writes a file: an existing file is replaced, a new one is listed
WriteFile(dir, name, content, mtime) ==
    IF HasFile(dir, name)
    THEN [i \in DOMAIN dir |->
            IF dir[i].name = name THEN File(name, content, mtime) ELSE dir[i]]
    ELSE Append(dir, File(name, content, mtime))

Call(prog, exit) == [prog |-> prog, exit |-> exit]

WithCalls(r, calls) == [r EXCEPT !.calls = calls]

\* ParseOutcome without the check of the parser's exit code
ParseOutcomeLenient(dir, json_name, exit, message) ==
    IF ~HasFile(dir, json_name)
    THEN Error500("JSON file was not generated", <<>>, 0)
    ELSE IF ~FileNamed(dir, json_name).content.ok
    THEN Error500("Error parsing file", <<json_name>>, 0)
    ELSE Response(200, [message |-> message,
                        data |-> FileNamed(dir, json_name).content],
                  <<json_name>>, 0)

\* lines 319-336 and 366-384: what the handler answers once the parser has
\* exited with `exit` and the directory is `dir`
ParseOutcome(dir, json_name, exit, message) ==
    IF exit /= 0 THEN Error500("Parsing failed", <<>>, 0)
    ELSE IF ~HasFile(dir, json_name)
    THEN Error500("JSON file was not generated", <<>>, 0)
    ELSE IF ~FileNamed(dir, json_name).content.ok
    THEN Error500("Error parsing file", <<json_name>>, 0)
    ELSE Response(200, [message |-> message,
                        data |-> FileNamed(dir, json_name).content],
                  <<json_name>>, 0)

\* the directory after a parser run that wrote `written` (a set of at most
\* one content) as `json_name`
AfterParser(dir, json_name, written, mtime) ==
    IF written = {} THEN dir
    ELSE WriteFile(dir, json_name, CHOOSE c \in written : TRUE, mtime)

ParseHtmlFile(file_path) ==
    /\ \/ /\ file_path \notin htmlDir
          /\ last' = [op |-> "parse", site |-> <<>>, location |-> <<>>,
                      path |-> file_path,
                      r |-> Response(404, [detail |-> "File not found"], <<>>, 0)]
          /\ outputs' = outputs
       \/ /\ file_path \in htmlDir
          /\ Suffix(file_path) /= S_dotHtml
          /\ last' = [op |-> "parse", site |-> <<>>, location |-> <<>>,
                      path |-> file_path,
                      r |-> Response(400, [detail |-> "File must be an HTML file"],
                                     <<>>, 0)]
          /\ outputs' = outputs
       \/ /\ file_path \in htmlDir
          /\ Suffix(file_path) = S_dotHtml
          /\ \E exit \in ExitCodes,
                written \in {{}} \cup {{c} : c \in ParsedPool} :
                LET json_name == Stem(file_path) \o S_parsedJson
                    dir == AfterParser(outputs, json_name, written, clock)
                IN /\ outputs' = dir
                   /\ last' = [op |-> "parse", site |-> <<>>, location |-> <<>>,
                               path |-> file_path,
                               r |-> WithCalls(
                                       ParseOutcome(dir, json_name, exit,
                                                    "Successfully parsed HTML file"),
                                       <<Call("unified-html-parser.js", exit)>>)]
    /\ UNCHANGED <<htmlDir, clock, pc, resp, wrote>>

UploadAndParse(filename) ==
    /\ \/ /\ ~EndsWith(filename, S_dotHtml)
          /\ last' = [op |-> "upload", site |-> <<>>, location |-> <<>>,
                      path |-> filename,
                      r |-> Response(400, [detail |-> "File must be an HTML file"],
                                     <<>>, 0)]
          /\ outputs' = outputs
       \/ /\ EndsWith(filename, S_dotHtml)
          /\ \E exit \in ExitCodes,
                written \in {{}} \cup {{c} : c \in ParsedPool} :
                LET json_name == Stem(filename) \o S_parsedJson
                    saved == WriteFile(outputs, filename, Corrupt, clock)
                    dir == AfterParser(saved, json_name, written, clock)
                IN /\ outputs' = dir
                   /\ last' = [op |-> "upload", site |-> <<>>, location |-> <<>>,
                               path |-> filename,
                               r |-> WithCalls(
                                       ParseOutcome(dir, json_name, exit,
                                           "Successfully uploaded and parsed HTML file"),
                                       <<Call("unified-html-parser.js", exit)>>)]
    /\ UNCHANGED <<htmlDir, clock, pc, resp, wrote>>

InitParse ==
    /\ outputs = <<>>
    /\ htmlDir = {N_page1Html, N_notesTxt}
    /\ clock = 0
    /\ last = NoRequest
    /\ pc = [q \in Reqs |-> "idle"]
    /\ resp = [q \in Reqs |-> NoRequest.r]
    /\ wrote = [q \in Reqs |-> {}]

NextParse ==
    \/ \E file_path \in PathInputs : ParseHtmlFile(file_path)
    \/ \E filename \in UploadInputs : UploadAndParse(filename)

SpecParse == InitParse /\ [][NextParse]_vars

(***************************************************************************)
(* POST /api/scrape.  A request is a coroutine that is suspended while the *)
(* scraper runs, while the parser runs and during the two sleeps; other    *)
(* requests and both external processes run in between.  The request's     *)
(* location and product are only passed on and echoed, and are left out.   *)
(***************************************************************************)
S_batchPattern == S_parsedResults \o S_star \o S_dotJson
N_batchOld == S_parsedResults \o <<"o","l","d">> \o S_dotJson

Digit(n) ==
    CASE n = 0 -> "0" [] n = 1 -> "1" [] n = 2 -> "2" [] n = 3 -> "3"
      [] n = 4 -> "4" [] n = 5 -> "5" [] n = 6 -> "6" [] n = 7 -> "7"
      [] n = 8 -> "8" [] OTHER -> "9"

\* parsed-results-<token>.json, the token taken from the time of writing
BatchName(t) == S_parsedResults \o <<Digit(t)>> \o S_dotJson

\* what the parser may write for one HTML file, and as the combined file
ScrapedPool == {One(PR_A)}
BatchPool == {List(<<PR_A>>), List(<<PR_Z, PR_B>>), Corrupt}

\* the scraper's exit code and whether its stderr decodes as UTF-8 (which is
\* only tried after a non-zero exit)
ScraperOutcomes == {<<0, TRUE>>, <<1, TRUE>>, <<1, FALSE>>}

Pending == Response(0, [detail |-> "pending"], <<>>, 0)

ScrapeCall(prog, exit, stderrOk) ==
    [prog |-> prog, exit |-> exit, stderrOk |-> stderrOk]

\* AfterScrape with a non-zero exit treated as a failure of the request
AfterScrapeStrict(exit, stderrOk) ==
    IF exit /= 0 THEN "raise" ELSE "continue"

\* lines 408-411: a non-zero exit is only printed; decoding stderr for the
\* message raises when the bytes are not UTF-8
AfterScrape(exit, stderrOk) ==
    IF exit /= 0 /\ ~stderrOk THEN "raise" ELSE "continue"

\* LatestBatch with the sort in ascending order
LatestBatchOldest(dir) ==
    LET json_files == Glob(dir, S_batchPattern)
        least == CHOOSE i \in DOMAIN json_files :
                    /\ \A j \in DOMAIN json_files :
                          json_files[j].mtime >= json_files[i].mtime
                    /\ \A j \in 1..(i - 1) :
                          json_files[j].mtime /= json_files[i].mtime
    IN IF json_files = <<>> THEN <<>> ELSE <<json_files[least]>>

\* line 445: sorted(glob("parsed-results-*.json"), key=getmtime, reverse=True),
\* cut to its first element: the sort is stable, so among the files with the
\* greatest mtime the one listed first
LatestBatch(dir) ==
    LET json_files == Glob(dir, S_batchPattern)
        first == CHOOSE i \in DOMAIN json_files :
                    /\ \A j \in DOMAIN json_files :
                          json_files[j].mtime <= json_files[i].mtime
                    /\ \A j \in 1..(i - 1) :
                          json_files[j].mtime /= json_files[i].mtime
    IN IF json_files = <<>> THEN <<>> ELSE <<json_files[first]>>

\* the sites of the items with totalProducts > 0
SitesScraped(items) ==
    {GetSite(items[i], S_unknown) :
        i \in {k \in DOMAIN items : GetTotalProducts(items[k]) > 0}}

HasScalar(items) == \E i \in DOMAIN items : items[i].t = "num"

\* lines 473-486: what one individual file adds to sites_scraped; a scalar
\* raises inside the try, after the file's data was added to all_data
FallbackSites(f) ==
    IF ~f.content.ok \/ HasScalar(f.content.items) THEN {}
    ELSE SitesScraped(f.content.items)

\* lines 444-495: the response once both processes have exited
scrape_result(dir) ==
    LET batch == LatestBatch(dir)
        data == batch[1].content
        individual_files == Glob(dir, S_star \o S_parsedJson)
        all_data == LoadAll(individual_files)
    IN IF batch /= <<>>
       THEN IF ~data.ok
            THEN Error500("Error scraping products: JSONDecodeError",
                          <<batch[1].name>>, 1)
            ELSE IF data.isList /\ HasScalar(data.items)
            THEN Error500("Error scraping products: AttributeError",
                          <<batch[1].name>>, 1)
            ELSE Response(200,
                          [message |-> "Successfully scraped and parsed products",
                           data |-> [isList |-> data.isList, items |-> data.items],
                           total_sites |-> IF data.isList THEN Len(data.items) ELSE 1,
                           sites_scraped |-> IF HasScalar(data.items) THEN {}
                                             ELSE SitesScraped(data.items)],
                          <<batch[1].name>>, 1)
       ELSE Response(200,
                     [message |-> "Successfully scraped and parsed products",
                      data |-> [isList |-> TRUE, items |-> all_data],
                      total_sites |-> Len(all_data),
                      sites_scraped |->
                          UNION {FallbackSites(individual_files[i]) :
                                   i \in DOMAIN individual_files}],
                     Names(individual_files), 2)

\* Receive behind a lock that admits one scrape at a time
ReceiveLocked(q) ==
    /\ pc[q] = "idle"
    /\ \A o \in Reqs \ {q} : pc[o] \in {"idle", "DONE"}
    /\ pc' = [pc EXCEPT ![q] = "INVOKING_SCRAPE"]
    /\ resp' = [resp EXCEPT ![q] = Pending]
    /\ UNCHANGED <<outputs, htmlDir, clock, last, wrote>>

\* lines 393-404: the request arrives and starts the scraper
Receive(q) ==
    /\ pc[q] = "idle"
    /\ pc' = [pc EXCEPT ![q] = "INVOKING_SCRAPE"]
    /\ resp' = [resp EXCEPT ![q] = Pending]
    /\ UNCHANGED <<outputs, htmlDir, clock, last, wrote>>

\* location-selector-orchestrator.js leaves an HTML file in output/
ScraperWritesHtml(q, name) ==
    /\ pc[q] = "INVOKING_SCRAPE"
    /\ name \notin htmlDir
    /\ htmlDir' = htmlDir \cup {name}
    /\ UNCHANGED <<outputs, clock, last, pc, resp, wrote>>

\* lines 406-414: the scraper exits
ScraperExits(q, exit, stderrOk) ==
    /\ pc[q] = "INVOKING_SCRAPE"
    /\ LET calls == <<ScrapeCall("location-selector-orchestrator.js", exit, stderrOk)>>
       IN IF AfterScrape(exit, stderrOk) = "raise"
          THEN /\ pc' = [pc EXCEPT ![q] = "DONE"]
               /\ resp' = [resp EXCEPT ![q] =
                     WithCalls(Error500("Error scraping products: UnicodeDecodeError",
                                        <<>>, 0), calls)]
          ELSE /\ pc' = [pc EXCEPT ![q] = "AWAITING_HTML"]
               /\ resp' = [resp EXCEPT ![q] = WithCalls(Pending, calls)]
    /\ UNCHANGED <<outputs, htmlDir, clock, last, wrote>>

\* lines 416-437: after the sleep, look for HTML files and start the parser
InspectHtml(q) ==
    /\ pc[q] = "AWAITING_HTML"
    /\ LET html_files == {n \in htmlDir : GlobMatch(S_star \o S_dotHtml, n)}
       IN IF html_files = {}
          THEN /\ pc' = [pc EXCEPT ![q] = "DONE"]
               /\ resp' = [resp EXCEPT ![q] =
                     WithCalls(Response(200,
                         [message |-> "Scraping completed but no HTML files found",
                          data |-> [isList |-> TRUE, items |-> <<>>],
                          sites_scraped |-> {}], <<>>, 1), resp[q].calls)]
          ELSE /\ pc' = [pc EXCEPT ![q] = "INVOKING_PARSE"]
               /\ resp' = [resp EXCEPT ![q].globs = 1]
    /\ UNCHANGED <<outputs, htmlDir, clock, last, wrote>>

\* unified-html-parser.js output/ writes the artifact of one HTML file
ParserWritesArtifact(q, name, content) ==
    /\ pc[q] = "INVOKING_PARSE"
    /\ name \in htmlDir /\ Suffix(name) = S_dotHtml
    /\ outputs' = WriteFile(outputs, Stem(name) \o S_parsedJson, content, clock)
    /\ outputs' /= outputs
    /\ UNCHANGED <<htmlDir, clock, last, pc, resp, wrote>>

\* unified-html-parser.js output/ writes its combined file, once per run
ParserWritesBatch(q, content, tick) ==
    /\ pc[q] = "INVOKING_PARSE"
    /\ wrote[q] = {}
    /\ clock + tick <= MaxClock
    /\ clock' = clock + tick
    /\ outputs' = WriteFile(outputs, BatchName(clock'), content, clock')
    /\ wrote' = [wrote EXCEPT ![q] = {BatchName(clock')}]
    /\ UNCHANGED <<htmlDir, last, pc, resp>>

\* lines 439-442: the parser exits; its exit code is not looked at
ParserExits(q, exit) ==
    /\ pc[q] = "INVOKING_PARSE"
    /\ pc' = [pc EXCEPT ![q] = "AWAITING_JSON"]
    /\ exit \in ExitCodes
    /\ UNCHANGED <<outputs, htmlDir, clock, last, resp, wrote>>

\* lines 444-495: after the sleep, pick what to return
Aggregate(q) ==
    /\ pc[q] = "AWAITING_JSON"
    /\ pc' = [pc EXCEPT ![q] = "DONE"]
    /\ resp' = [resp EXCEPT ![q] =
                   [scrape_result(outputs) EXCEPT !.calls = resp[q].calls,
                                                  !.globs = @ + 1]]
    /\ UNCHANGED <<outputs, htmlDir, clock, last, wrote>>

ScrapeStores ==
    {<<>>,
     <<File(N_store1, One(PR_C), 0), File(N_myDmart, Corrupt, 0)>>,
     <<File(N_batchOld, List(<<PR_B>>), 0), File(N_store1, One(PR_C), 0)>>}

InitScrape ==
    /\ outputs \in ScrapeStores
    /\ htmlDir = {}
    /\ clock = 0
    /\ last = NoRequest
    /\ pc = [q \in Reqs |-> "idle"]
    /\ resp = [q \in Reqs |-> NoRequest.r]
    /\ wrote = [q \in Reqs |-> {}]

NextScrape ==
    \E q \in Reqs :
       \/ Receive(q)
       \/ ScraperWritesHtml(q, N_page1Html)
       \/ \E out \in ScraperOutcomes : ScraperExits(q, out[1], out[2])
       \/ InspectHtml(q)
       \/ \E content \in ScrapedPool : ParserWritesArtifact(q, N_page1Html, content)
       \/ \E content \in BatchPool, tick \in {0, 1} : ParserWritesBatch(q, content, tick)
       \/ \E exit \in ExitCodes : ParserExits(q, exit)
       \/ Aggregate(q)

SpecScrape == InitScrape /\ [][NextScrape]_vars

(***************************************************************************)
(* Properties of the query service.                                        *)
(***************************************************************************)
Range(seq) == {seq[i] : i \in DOMAIN seq}

RECURSIVE Sum(_)
Sum(ns) == IF ns = <<>> THEN 0 ELSE Head(ns) + Sum(Tail(ns))

QuerySite == Lower(last.site)
QueryLocation == Lower(last.location)
SiteScoped == last.op \in {"by_site", "by_site_location"}
Succeeded == last.r.status = 200 /\ last.r.body.message = "Success"

\* the stored site / location of an object, compared as the spec words it
HasSite(r, site) == r.t = "obj" /\ "site" \in r.has /\ Lower(r.site) = site
HasLocationWith(r, location) ==
    r.t = "obj" /\ "location" \in r.has /\ IsSubstr(location, Lower(r.location))

\* a well-formed ParseResult: an object whose products, if any, are a list
IsParseResult(r) == r.t = "obj" /\ ~("products" \in r.has /\ r.pnull)
WellFormedFile(f) ==
    f.content.ok /\ \A k \in DOMAIN f.content.items : IsParseResult(f.content.items[k])
OnlyObjects(f) ==
    f.content.ok /\ \A k \in DOMAIN f.content.items : f.content.items[k].t = "obj"
NameContains(f, site) == EndsWith(f.name, S_parsedJson) /\ IsSubstr(site, f.name)

\* the products field of a response of either shape
ProductsOf(r) ==
    IF r.status /= 200 THEN <<>>
    ELSE IF r.body.message = "Success" /\ "all_products" \in DOMAIN r.body
    THEN r.body.all_products ELSE r.body.products

\* C1 (as claimed): in a site-scoped query each artifact file contributes its
\* products at most once, so the response holds no more products than the
\* files hold for that site, and the store with the single artifact
\* dmart-mumbai-parsed.json (2 products, site dmart) answers
\* GET /products/dmart with total_products = 2.
C1_EachFileCountedOnce ==
    /\ (SiteScoped /\ Succeeded) =>
          Len(last.r.body.products) <=
             Sum([i \in DOMAIN outputs |->
                    Len(AllProducts(SelectSeq(outputs[i].content.items,
                                              LAMBDA r : HasSite(r, QuerySite))))])
    /\ (last.op = "by_site" /\ QuerySite = S_dmart
          /\ outputs = <<File(N_dmartMumbai, One(PR_A), 0)>>) =>
          (Succeeded /\ last.r.body.total_products = 2)

\* C2 (as claimed), on stores that hold well-formed ParseResults only: GET
\* /products/{s} succeeds and includes the products of every ParseResult
\* whose site equals s case-insensitively, whatever the name of its file.
C2_WhateverTheFilename ==
    (last.op = "by_site" /\ InList(QuerySite, SUPPORTED_SITES)
       /\ \A i \in DOMAIN outputs : WellFormedFile(outputs[i])) =>
       /\ last.r.status = 200
       /\ \A i \in DOMAIN outputs : \A k \in DOMAIN outputs[i].content.items :
             HasSite(outputs[i].content.items[k], QuerySite) =>
                Range(GetProducts(outputs[i].content.items[k]))
                    \subseteq Range(last.r.body.products)

\* every <<file, item>> position of a directory listing
Positions(dir) ==
    UNION {{<<i, k>> : k \in DOMAIN dir[i].content.items} : i \in DOMAIN dir}

\* the <<file, item>> positions GET /products/{s} takes results from: items
\* with site s of loadable artifacts named *s*-parsed.json made of objects only
C2_Sources ==
    {ik \in Positions(outputs) :
        /\ NameContains(outputs[ik[1]], QuerySite)
        /\ OnlyObjects(outputs[ik[1]])
        /\ HasSite(outputs[ik[1]].content.items[ik[2]], QuerySite)}

\* C2, what the code does instead: for a supported site s, GET /products/{s}
\* takes its results from the artifacts whose file name contains s only: it
\* returns 500 exactly when a matching entry of such an artifact has products
\* that are not a list, and otherwise its products are those of every
\* ParseResult with site s (case-insensitively) of those artifacts and of no
\* other entry.
C2_ByNameThenSite ==
    (last.op = "by_site" /\ InList(QuerySite, SUPPORTED_SITES)) =>
       LET item(ik) == outputs[ik[1]].content.items[ik[2]]
       IN /\ last.r.status \in {200, 500}
          /\ last.r.status = 500 <=> \E ik \in C2_Sources : ~IsParseResult(item(ik))
          /\ last.r.status = 200 =>
                Range(last.r.body.products) =
                    UNION {Range(GetProducts(item(ik))) : ik \in C2_Sources}

\* a query for "DMart" whose answer holds the product of the ParseResult
\* stored with site "DMart" next to an artifact it dropped
C2_ByNameThenSiteReached ==
    /\ last.op = "by_site" /\ last.site = S_DMart /\ Succeeded
    /\ 3 \in Range(last.r.body.products)
    /\ 4 \notin Range(last.r.body.products)
    /\ \E i \in DOMAIN outputs : outputs[i].content = List(<<PR_Z, PR_C, PR_U>>)

\* the store without the files that are not well-formed ParseResults
ValidOnly(dir) == SelectSeq(dir, WellFormedFile)

\* C3 (as claimed): a query with a valid site never answers with an error
\* because of an artifact that is not a well-formed ParseResult; its products
\* are exactly those of the same query over the remaining valid artifacts.
C3_MalformedSkipped ==
    (last.op \in {"get_all", "by_site", "by_site_location"}
       /\ (SiteScoped => InList(QuerySite, SUPPORTED_SITES))) =>
       /\ last.r.status = 200
       /\ ProductsOf(last.r) =
            ProductsOf(CASE last.op = "get_all" ->
                              get_all_products(ValidOnly(outputs))
                         [] last.op = "by_site" ->
                              get_products_by_site(ValidOnly(outputs), last.site)
                         [] OTHER ->
                              get_products_by_site_and_location(
                                  ValidOnly(outputs), last.site, last.location))

\* C4: a site-scoped query whose lower-cased site is none of the five
\* supported ones answers 400 without enumerating or opening anything, the
\* same answer for every store, and leaves both directories as they were.
C4_UnknownSiteRejected ==
    [][(last'.op \in {"by_site", "by_site_location"}
          /\ Lower(last'.site) \notin {S_dmart, S_jiomart, S_naturesbasket,
                                       S_zepto, S_swiggy})
         => /\ last'.r.status = 400
            /\ last'.r.body = [detail |-> "Unsupported site", site |-> Lower(last'.site)]
            /\ last'.r.reads = <<>> /\ last'.r.globs = 0
            /\ outputs' = outputs /\ htmlDir' = htmlDir]_vars

\* C4 witness: "amazon" was rejected over a store that holds artifacts
C4_Witness ==
    /\ last.op = "by_site_location" /\ last.site = S_amazon
    /\ last.r.status = 400 /\ Len(outputs) = 2

\* the <<file, item>> positions of the whole store that meet both conditions
C8_Both(dir) ==
    {ik \in Positions(dir) :
        /\ dir[ik[1]].content.ok
        /\ HasSite(dir[ik[1]].content.items[ik[2]], QuerySite)
        /\ HasLocationWith(dir[ik[1]].content.items[ik[2]], QueryLocation)}

\* C8 (as claimed), on stores that hold well-formed ParseResults only: the
\* answer holds the products of a ParseResult exactly when its site equals
\* the queried site and its location contains the queried location.
C8_ExactlyWhenBoth ==
    (last.op = "by_site_location" /\ InList(QuerySite, SUPPORTED_SITES)
       /\ \A i \in DOMAIN outputs : WellFormedFile(outputs[i])) =>
       /\ last.r.status = 200
       /\ Range(last.r.body.products) =
            UNION {Range(GetProducts(outputs[ik[1]].content.items[ik[2]])) :
                     ik \in C8_Both(outputs)}

\* the positions the handler reaches: artifacts named *site*-parsed.json,
\* and in a list the entries before the first one that is not an object
C8_Sources ==
    {ik \in C8_Both(outputs) :
        /\ NameContains(outputs[ik[1]], QuerySite)
        /\ \A j \in 1..ik[2] : outputs[ik[1]].content.items[j].t = "obj"}

\* C8, what the code does instead: over the artifacts whose file name
\* contains the site (and, in a list artifact, the entries before the first
\* non-object entry), the answer holds the products of a ParseResult exactly
\* when its site equals the queried site case-insensitively and its
\* lower-cased location contains the lower-cased query location; it is a 200
\* with an empty list when no entry meets both, and a 500 exactly when such
\* an entry's products are not a list.
C8_ByNameThenBoth ==
    (last.op = "by_site_location" /\ InList(QuerySite, SUPPORTED_SITES)) =>
       LET item(ik) == outputs[ik[1]].content.items[ik[2]]
       IN /\ last.r.status \in {200, 500}
          /\ C8_Both(outputs) = {} =>
                (last.r.status = 200 /\ last.r.body.products = <<>>)
          /\ last.r.status = 500 <=> \E ik \in C8_Sources : ~IsParseResult(item(ik))
          /\ last.r.status = 200 =>
                Range(last.r.body.products) =
                    UNION {Range(GetProducts(item(ik))) : ik \in C8_Sources}

\* "andheri" found the products stored under "Mumbai - Andheri West"
C8_ByNameThenBothReached ==
    /\ last.op = "by_site_location" /\ last.location = S_andheri /\ Succeeded
    /\ Range(last.r.body.products) = {1, 2}
    /\ \E i \in DOMAIN outputs : outputs[i].content = One(PR_B)

\* every ParseResult of every loadable artifact, in directory order
C9_Flattened ==
    Concat([i \in DOMAIN outputs |->
              IF outputs[i].content.ok THEN outputs[i].content.items ELSE <<>>])

\* C9: in a GET /products answer every site entry's total is the sum of
\* len(products) over all ParseResults with that site value, its location is
\* that of the first of them, and total_products is the sum of the totals
\* and the length of all_products.
C9_TotalsPerSite ==
    (last.op = "get_all" /\ Succeeded) =>
       LET sites == last.r.body.sites
           key(r) == IF "site" \in r.has THEN r.site ELSE S_unknown
           of(k) == SelectSeq(C9_Flattened, LAMBDA r : key(r) = k)
           keys == {key(C9_Flattened[i]) : i \in DOMAIN C9_Flattened}
           order == CHOOSE sq \in [1..Cardinality(keys) -> keys] : Range(sq) = keys
       IN /\ DOMAIN sites = keys
          /\ \A k \in keys :
                /\ sites[k].total = Sum([i \in DOMAIN of(k) |-> Len(of(k)[i].products)])
                /\ sites[k].location =
                      (IF "location" \in Head(of(k)).has THEN Head(of(k)).location
                       ELSE S_Unknown)
          /\ last.r.body.total_products =
                Sum([i \in DOMAIN order |-> sites[order[i]].total])
          /\ last.r.body.total_products = Len(last.r.body.all_products)
          /\ last.r.body.total_sites = Cardinality(keys)

\* C9 witness: two files contributed to one site entry, whose location is
\* that of the file listed first
C9_Witness ==
    /\ last.op = "get_all" /\ Succeeded
    /\ Len(outputs) = 2
    /\ outputs[1].content = List(<<PR_Z, PR_C, PR_U>>)
    /\ outputs[2].content = One(PR_A)
    /\ last.r.body.sites[S_dmart].total = 3
    /\ last.r.body.sites[S_dmart].location = S_puneEast

(***************************************************************************)
(* Properties of POST /api/parse.                                          *)
(***************************************************************************)
\* C7: POST /parse runs the parser only on a path that exists and has the
\* .html extension (404 for a missing file, 400 for another extension, the
\* parser not run in either case); once the parser has run, a non-zero exit
\* or a missing <stem>-parsed.json gives 500; a 200 is given only after exit
\* code 0 with the artifact present, and carries the artifact's contents.
C7_StrictParse ==
    last.op = "parse" =>
       LET invoked == last.r.calls /= <<>>
           exists == last.path \in htmlDir
           html == Len(last.path) >= 5
                     /\ SubSeq(last.path, Len(last.path) - 4, Len(last.path))
                          = <<".", "h", "t", "m", "l">>
           artifact == SubSeq(last.path, 1, Len(last.path) - 5)
                          \o <<"-","p","a","r","s","e","d",".","j","s","o","n">>
           present == \E i \in DOMAIN outputs : outputs[i].name = artifact
       IN /\ ~exists => (last.r.status = 404 /\ ~invoked)
          /\ (exists /\ ~html) => (last.r.status = 400 /\ ~invoked)
          /\ invoked <=> (exists /\ html)
          /\ (invoked /\ (last.r.calls[1].exit /= 0 \/ ~present)) =>
                last.r.status = 500
          /\ last.r.status = 200 =>
                /\ invoked /\ last.r.calls[1].exit = 0 /\ present
                /\ \E i \in DOMAIN outputs :
                      /\ outputs[i].name = artifact
                      /\ outputs[i].content.ok
                      /\ last.r.body.data = outputs[i].content

\* C7 witness: the parser exited with 1 although the artifact of an earlier
\* run is in the store, and the request was answered 500
C7_Witness ==
    /\ last.op = "parse" /\ last.path = N_page1Html
    /\ last.r.calls /= <<>> /\ last.r.calls[1].exit = 1
    /\ last.r.status = 500
    /\ HasFile(outputs, <<"p","a","g","e","1">> \o S_parsedJson)

(***************************************************************************)
(* Properties of POST /api/scrape.                                         *)
(***************************************************************************)
IsBatch(f) ==
    /\ Len(f.name) >= Len(S_parsedResults) + Len(S_dotJson)
    /\ SubSeq(f.name, 1, Len(S_parsedResults)) = S_parsedResults
    /\ EndsWith(f.name, S_dotJson)
IsIndividual(f) == EndsWith(f.name, S_parsedJson)

\* json.load fails on it, or it is a list that holds a scalar
Unusable(c) == ~c.ok \/ (c.isList /\ \E k \in DOMAIN c.items : c.items[k].t = "num")

\* C5: the step that answers a scrape request after scraper and parser have
\* run takes, if the store holds a batch artifact parsed-results-*.json, the
\* contents of a batch artifact of greatest modification time as `data` (and
\* answers 500 if that file cannot be used), and only if the store holds no
\* batch artifact the concatenation of the individual *-parsed.json
\* artifacts that load.
C5_ResolutionOrder ==
    [][\A q \in Reqs :
         (pc[q] = "AWAITING_JSON" /\ pc'[q] = "DONE") =>
            LET batches == {i \in DOMAIN outputs : IsBatch(outputs[i])}
                newest == {i \in batches :
                             \A j \in batches : outputs[j].mtime <= outputs[i].mtime}
                individual ==
                    Concat([i \in DOMAIN outputs |->
                              IF IsIndividual(outputs[i]) /\ outputs[i].content.ok
                              THEN outputs[i].content.items ELSE <<>>])
            IN IF batches /= {}
               THEN \E i \in newest :
                       IF Unusable(outputs[i].content)
                       THEN resp'[q].status = 500
                       ELSE /\ resp'[q].status = 200
                            /\ resp'[q].body.data =
                                 [isList |-> outputs[i].content.isList,
                                  items |-> outputs[i].content.items]
               ELSE /\ resp'[q].status = 200
                    /\ resp'[q].body.data = [isList |-> TRUE, items |-> individual]
      ]_vars

\* C5 witness: a request answered with the newer of two batch artifacts
\* while the store also held an older batch and individual artifacts
C5_Witness ==
    \E q \in Reqs :
       /\ pc[q] = "DONE" /\ resp[q].status = 200 /\ resp[q].calls /= <<>>
       /\ \E i, j, k \in DOMAIN outputs :
             /\ IsBatch(outputs[i]) /\ IsBatch(outputs[j])
             /\ outputs[i].mtime > outputs[j].mtime
             /\ outputs[j].content.ok
             /\ outputs[j].content /= outputs[i].content
             /\ resp[q].reads = <<outputs[i].name>>
             /\ resp[q].body.data = [isList |-> outputs[i].content.isList,
                                     items |-> outputs[i].content.items]
             /\ IsIndividual(outputs[k]) /\ outputs[k].content.ok

\* C6: a request whose scraper exited with a non-zero code (its stderr
\* readable) is past the scraper call, went on to look into the HTML
\* directory, and ends with 200 unless reading the batch artifact failed.
C6_NonZeroExitNotFatal ==
    \A q \in Reqs :
       (resp[q].calls /= <<>> /\ resp[q].calls[1].exit /= 0
          /\ resp[q].calls[1].stderrOk) =>
          /\ pc[q] \in {"AWAITING_HTML", "INVOKING_PARSE", "AWAITING_JSON", "DONE"}
          /\ pc[q] = "DONE" =>
                /\ resp[q].globs >= 1
                /\ \/ resp[q].status = 200
                   \/ /\ resp[q].status = 500
                      /\ resp[q].reads /= <<>>
                      /\ resp[q].body.detail \in
                            {"Error scraping products: JSONDecodeError",
                             "Error scraping products: AttributeError"}

\* C6 witness: the scraper exited with 1 and the request was answered 200
\* with parsed data
C6_Witness ==
    \E q \in Reqs :
       /\ pc[q] = "DONE" /\ resp[q].calls /= <<>> /\ resp[q].calls[1].exit = 1
       /\ resp[q].status = 200
       /\ resp[q].body.message = "Successfully scraped and parsed products"
       /\ resp[q].body.data.items /= <<>>

\* C10: scrape requests do not exclude each other: whatever the other
\* request is doing, a request can be received and, once received, its
\* scraper and parser can run to their exits and it can go on to inspect the
\* HTML directory, so that both are under way at the same time.
C10_NoMutualExclusion ==
    \A q \in Reqs :
       /\ pc[q] = "idle" => ENABLED Receive(q)
       /\ pc[q] = "INVOKING_SCRAPE" => ENABLED ScraperExits(q, 0, TRUE)
       /\ pc[q] = "AWAITING_HTML" => ENABLED InspectHtml(q)
       /\ pc[q] = "INVOKING_PARSE" => ENABLED ParserExits(q, 0)

\* C10 witness: a request has just answered with the batch artifact the
\* other request's parser wrote, not the one its own parser wrote, while the
\* other request has not read its result yet
C10_Witness ==
    \E q, o \in Reqs :
       /\ q /= o
       /\ pc[q] = "DONE" /\ pc[o] = "AWAITING_JSON"
       /\ wrote[q] /= {} /\ wrote[o] /= {} /\ wrote[q] /= wrote[o]
       /\ resp[q].status = 200
       /\ Len(resp[q].reads) = 1
       /\ resp[q].reads[1] \in wrote[o]
       /\ \E i \in DOMAIN outputs :
             /\ outputs[i].name = resp[q].reads[1]
             /\ resp[q].body.data.items = outputs[i].content.items
       /\ \E j \in DOMAIN outputs :
             /\ outputs[j].name \in wrote[q]
             /\ outputs[j].content.ok
             /\ outputs[j].content.items /= resp[q].body.data.items

====
